---- MODULE Spec2Model ----
(***************************************************************************)
(* Contact-book backend (FastAPI + SQLAlchemy): the authentication and     *)
(* token lifecycle (src/routes/auth.py, src/services/auth.py,              *)
(* src/repository/users.py) and the contact repository                     *)
(* (src/repository/contacts.py).                                           *)
(*                                                                         *)
(* Every route handler awaits only coroutines that never suspend (the      *)
(* repository functions make blocking SQLAlchemy calls), so one handler    *)
(* runs to completion on the event loop before the next starts: one        *)
(* action per handler.                                                     *)
(*                                                                         *)
(* Time is the UTC clock in whole seconds, the resolution python-jose      *)
(* gives the iat and exp claims.                                           *)
(***************************************************************************)
EXTENDS Integers, Sequences, FiniteSets, TLC

VARIABLES
    users,      \* rows of the users table, in insertion order
    contacts,   \* rows of the contacts table, in insertion order
    next_contact_id, \* the contacts table's id sequence
    clock,      \* datetime.utcnow(), in seconds
    today,      \* datetime.today().date()
    nticks,     \* how often the clock has advanced
    issued,     \* every token the service has encoded so far
    resp,       \* the response to the request handled last
    inflight    \* the refresh calls that are handled concurrently

vars == <<users, contacts, next_contact_id, clock, today, nticks, issued, resp,
          inflight>>

-----------------------------------------------------------------------------
(* Bounds of the model *)

MaxUsers == 2
MaxTicks == 2
MaxIssued == 5

(* Program constants, in seconds *)

AccessTTL == 900
RefreshTTL == 604800
EmailTTL == 604800

Emails == {"a@b.com", "dead@pool.io"}
SignupPassword == "pw123456"
Passwords == {SignupPassword, "wrong000"}
Deltas == {AccessTTL, RefreshTTL}

SECRET_KEY == "secret_key"
OTHER_KEY == "other_key"
ALGORITHM == "HS256"

None == [none |-> TRUE]

Range(seq) == {seq[i] : i \in DOMAIN seq}

Date(y, m, d) == [year |-> y, month |-> m, day |-> d]

-----------------------------------------------------------------------------
(* What a call gives: the value it returns, or the HTTP error it raises    *)
(* (500 with the exception's name for one no handler catches)              *)

Raise(status, detail) == [status |-> status, detail |-> detail, value |-> None]
Return(value) == [status |-> 200, detail |-> "", value |-> value]

-----------------------------------------------------------------------------
(* passlib's bcrypt context *)

get_password_hash(password) ==
    [scheme |-> "bcrypt", salt |-> "salt", digest |-> <<"salt", password>>]

verify_password(plain_password, hashed_password) ==
    hashed_password.digest = <<hashed_password.salt, plain_password>>

-----------------------------------------------------------------------------
(* python-jose *)

jwt_encode(claims, key) ==
    [header |-> ALGORITHM, payload |-> claims, signature |-> key]

Malformed == [raw |-> "not-a-jwt"]

\* Mutant: the signature is not verified
jwt_decode_unverified(token, key, now) ==
    IF "payload" \notin DOMAIN token THEN [ok |-> FALSE, payload |-> None]
    ELSE IF "exp" \in DOMAIN token.payload /\ token.payload.exp < now
         THEN [ok |-> FALSE, payload |-> None]
    ELSE [ok |-> TRUE, payload |-> token.payload]

\* jwt.decode: JWTError on a malformed token, a bad signature or an expired
\* exp claim (exp < now); otherwise the payload.
jwt_decode(token, key, now) ==
    IF "payload" \notin DOMAIN token THEN [ok |-> FALSE, payload |-> None]
    ELSE IF token.header # ALGORITHM \/ token.signature # key
         THEN [ok |-> FALSE, payload |-> None]
    ELSE IF "exp" \in DOMAIN token.payload /\ token.payload.exp < now
         THEN [ok |-> FALSE, payload |-> None]
    ELSE [ok |-> TRUE, payload |-> token.payload]

\* dict.update: the keys of new override those of d
dict_update(d, new) == new @@ d

-----------------------------------------------------------------------------
(* repository/users.py *)

RECURSIVE first_where(_, _, _)
first_where(rows, i, email) ==
    IF i > Len(rows) THEN None
    ELSE IF rows[i].email = email THEN rows[i]
    ELSE first_where(rows, i + 1, email)

get_user_by_email(email, us) == first_where(us, 1, email)

\* The column defaults of the User model
UserDefaults == [confirmed |-> FALSE, refresh_token |-> None]

new_user(us, body) ==
    [id |-> Len(us) + 1, email |-> body.email, password |-> body.password]
    @@ UserDefaults

create_user(body, us) == Append(us, new_user(us, body))

\* Mutant: the new token is never written to the row
update_token_lost(user, token, us) == us

\* Mutant: the row is written only if it still holds what the caller read
update_token_if_unchanged(user, token, us) ==
    [i \in DOMAIN us |->
        IF us[i].id = user.id /\ us[i].refresh_token = user.refresh_token
        THEN [us[i] EXCEPT !.refresh_token = token]
        ELSE us[i]]

update_token(user, token, us) ==
    [i \in DOMAIN us |->
        IF us[i].id = user.id THEN [us[i] EXCEPT !.refresh_token = token]
        ELSE us[i]]

repo_confirmed_email(email, us) ==
    LET user == get_user_by_email(email, us) IN
    [i \in DOMAIN us |->
        IF us[i].id = user.id THEN [us[i] EXCEPT !.confirmed = TRUE]
        ELSE us[i]]

-----------------------------------------------------------------------------
(* services/auth.py *)

\* expires_delta: Optional[float], a number of seconds
Seconds(d) == [seconds |-> d]

\* "if expires_delta:" is false for None and for 0
truthy(expires_delta) == expires_delta # None /\ expires_delta.seconds # 0

\* Mutant: the scope claim is misspelt
create_access_token_wrong_scope(data, expires_delta, now) ==
    LET expire == IF truthy(expires_delta) THEN now + expires_delta.seconds
                  ELSE now + AccessTTL
    IN jwt_encode(dict_update(data,
           [iat |-> now, exp |-> expire, scope |-> "access"]), SECRET_KEY)

create_access_token(data, expires_delta, now) ==
    LET expire == IF truthy(expires_delta) THEN now + expires_delta.seconds
                  ELSE now + AccessTTL
    IN jwt_encode(dict_update(data,
           [iat |-> now, exp |-> expire, scope |-> "access_token"]), SECRET_KEY)

create_refresh_token(data, expires_delta, now) ==
    LET expire == IF truthy(expires_delta) THEN now + expires_delta.seconds
                  ELSE now + RefreshTTL
    IN jwt_encode(dict_update(data,
           [iat |-> now, exp |-> expire, scope |-> "refresh_token"]), SECRET_KEY)

create_email_token(data, now) ==
    jwt_encode(dict_update(data, [iat |-> now, exp |-> now + EmailTTL]),
               SECRET_KEY)

\* Mutant: the scope claim is not looked at
decode_refresh_token_any_scope(token, now) ==
    LET d == jwt_decode(token, SECRET_KEY, now) IN
    IF ~d.ok THEN Raise(401, "Could not validate credentials")
    ELSE IF "sub" \notin DOMAIN d.payload THEN Raise(500, "KeyError")
    ELSE Return([email |-> d.payload.sub])

decode_refresh_token(token, now) ==
    LET d == jwt_decode(token, SECRET_KEY, now) IN
    IF ~d.ok THEN Raise(401, "Could not validate credentials")
    ELSE IF "scope" \notin DOMAIN d.payload THEN Raise(500, "KeyError")
    ELSE IF d.payload.scope = "refresh_token"
         THEN IF "sub" \notin DOMAIN d.payload THEN Raise(500, "KeyError")
              ELSE Return([email |-> d.payload.sub])
    ELSE Raise(401, "Invalid scope for token")

get_current_user(token, now, us) ==
    LET d == jwt_decode(token, SECRET_KEY, now) IN
    IF ~d.ok THEN Raise(401, "Could not validate credentials")
    ELSE IF "scope" \notin DOMAIN d.payload THEN Raise(500, "KeyError")
    ELSE IF d.payload.scope # "access_token"
         THEN Raise(401, "Could not validate credentials")
    ELSE IF "sub" \notin DOMAIN d.payload THEN Raise(500, "KeyError")
    ELSE IF d.payload.sub = "" THEN Raise(401, "Could not validate credentials")
    ELSE LET user == get_user_by_email(d.payload.sub, us) IN
         IF user = None THEN Raise(401, "Could not validate credentials")
         ELSE Return(user)

get_email_from_token(token, now) ==
    LET d == jwt_decode(token, SECRET_KEY, now) IN
    IF ~d.ok THEN Raise(422, "Invalid token for email verification")
    ELSE IF "sub" \notin DOMAIN d.payload THEN Raise(500, "KeyError")
    ELSE Return([email |-> d.payload.sub])

-----------------------------------------------------------------------------
(* routes/auth.py: each handler as a function of the request, the users    *)
(* table and the clock, giving the response, the table it commits and the  *)
(* tokens it encodes.                                                      *)

Response(op, status, detail) ==
    [op |-> op, status |-> status, detail |-> detail, user |-> "",
     access_token |-> None, refresh_token |-> None, mails |-> 0,
     current_user |-> 0, contacts |-> <<>>]

Idle == Response("idle", 0, "")

Outcome(response, us, minted) ==
    [resp |-> response, users |-> us, minted |-> minted]

\* Mutant: no look-up of an existing account
signup_no_check(body, us, now) ==
    LET hashed == [body EXCEPT !.password = get_password_hash(body.password)]
    IN Outcome([Response("signup", 201,
                    "User successfully created. Check your email for confirmation.")
                    EXCEPT !.user = body.email, !.mails = 1],
               create_user(hashed, us),
               {create_email_token([sub |-> body.email], now)})

signup(body, us, now) ==
    LET exist_user == get_user_by_email(body.email, us)
        hashed == [body EXCEPT !.password = get_password_hash(body.password)]
        r == Response("signup", 0, "")
    IN IF exist_user # None
       THEN Outcome([r EXCEPT !.status = 409,
                              !.detail = "Account already exists"], us, {})
       ELSE Outcome([r EXCEPT !.status = 201,
                              !.detail = "User successfully created. Check your email for confirmation.",
                              !.user = body.email, !.mails = 1],
                    create_user(hashed, us),
                    {create_email_token([sub |-> body.email], now)})

\* Mutant: the confirmed flag is not looked at
login_skips_confirmed(body, us, now) ==
    LET user == get_user_by_email(body.username, us)
        r == Response("login", 0, "")
        access_token == create_access_token([sub |-> user.email], None, now)
        refresh_token == create_refresh_token([sub |-> user.email], None, now)
    IN IF user = None
       THEN Outcome([r EXCEPT !.status = 401,
                              !.detail = "Invalid email or password"], us, {})
       ELSE IF ~verify_password(body.password, user.password)
       THEN Outcome([r EXCEPT !.status = 401,
                              !.detail = "Invalid email or password"], us, {})
       ELSE Outcome([r EXCEPT !.status = 200,
                              !.access_token = access_token,
                              !.refresh_token = refresh_token],
                    update_token(user, refresh_token, us),
                    {access_token, refresh_token})

login(body, us, now) ==
    LET user == get_user_by_email(body.username, us)
        r == Response("login", 0, "")
        access_token == create_access_token([sub |-> user.email], None, now)
        refresh_token == create_refresh_token([sub |-> user.email], None, now)
    IN IF user = None
       THEN Outcome([r EXCEPT !.status = 401,
                              !.detail = "Invalid email or password"], us, {})
       ELSE IF ~user.confirmed
       THEN Outcome([r EXCEPT !.status = 401,
                              !.detail = "Email not confirmed"], us, {})
       ELSE IF ~verify_password(body.password, user.password)
       THEN Outcome([r EXCEPT !.status = 401,
                              !.detail = "Invalid email or password"], us, {})
       ELSE Outcome([r EXCEPT !.status = 200,
                              !.access_token = access_token,
                              !.refresh_token = refresh_token],
                    update_token(user, refresh_token, us),
                    {access_token, refresh_token})

\* Mutant: a mismatch is refused but the stored token is kept
refresh_token_keeps_session(token, us, now) ==
    LET decoded == decode_refresh_token(token, now)
        email == decoded.value.email
        user == get_user_by_email(email, us)
        r == Response("refresh_token", 0, "")
        access_token == create_access_token([sub |-> email], None, now)
        new_refresh_token == create_refresh_token([sub |-> email], None, now)
    IN IF decoded.status # 200
       THEN Outcome([r EXCEPT !.status = decoded.status,
                              !.detail = decoded.detail], us, {})
       ELSE IF user = None
       THEN Outcome([r EXCEPT !.status = 500, !.detail = "AttributeError"], us, {})
       ELSE IF user.refresh_token # token
       THEN Outcome([r EXCEPT !.status = 401,
                              !.detail = "Invalid refresh token"], us, {})
       ELSE Outcome([r EXCEPT !.status = 200,
                              !.access_token = access_token,
                              !.refresh_token = new_refresh_token],
                    update_token(user, new_refresh_token, us),
                    {access_token, new_refresh_token})

refresh_token(token, us, now) ==
    LET decoded == decode_refresh_token(token, now)
        email == decoded.value.email
        user == get_user_by_email(email, us)
        r == Response("refresh_token", 0, "")
        access_token == create_access_token([sub |-> email], None, now)
        new_refresh_token == create_refresh_token([sub |-> email], None, now)
    IN IF decoded.status # 200
       THEN Outcome([r EXCEPT !.status = decoded.status,
                              !.detail = decoded.detail], us, {})
       ELSE IF user = None
       THEN Outcome([r EXCEPT !.status = 500, !.detail = "AttributeError"], us, {})
       ELSE IF user.refresh_token # token
       THEN Outcome([r EXCEPT !.status = 401,
                              !.detail = "Invalid refresh token"],
                    update_token(user, None, us), {})
       ELSE Outcome([r EXCEPT !.status = 200,
                              !.access_token = access_token,
                              !.refresh_token = new_refresh_token],
                    update_token(user, new_refresh_token, us),
                    {access_token, new_refresh_token})

confirmed_email(token, us, now) ==
    LET decoded == get_email_from_token(token, now)
        email == decoded.value.email
        user == get_user_by_email(email, us)
        r == Response("confirmed_email", 0, "")
    IN IF decoded.status # 200
       THEN Outcome([r EXCEPT !.status = decoded.status,
                              !.detail = decoded.detail], us, {})
       ELSE IF user = None
       THEN Outcome([r EXCEPT !.status = 400, !.detail = "Verification error"], us, {})
       ELSE IF user.confirmed
       THEN Outcome([r EXCEPT !.status = 200,
                              !.detail = "Your email is already confirmed"], us, {})
       ELSE Outcome([r EXCEPT !.status = 200, !.detail = "Email confirmed"],
                    repo_confirmed_email(email, us), {})

request_email(body, us, now) ==
    LET user == get_user_by_email(body.email, us)
        r == Response("request_email", 0, "")
    IN IF user = None
       THEN Outcome([r EXCEPT !.status = 500, !.detail = "AttributeError"],
                    us, {})
       ELSE IF user.confirmed
       THEN Outcome([r EXCEPT !.status = 200,
                              !.detail = "Your email is already confirmed"],
                    us, {})
       ELSE Outcome([r EXCEPT !.status = 200,
                              !.detail = "Check your email for confirmation",
                              !.mails = 1],
                    us, {create_email_token([sub |-> user.email], now)})

\* routes/users.py: GET /users/me/ behind Depends(get_current_user)
get_users_me(token, us, now) ==
    LET current == get_current_user(token, now, us)
        r == Response("get_users_me", 0, "")
    IN IF current.status # 200
       THEN Outcome([r EXCEPT !.status = current.status,
                              !.detail = current.detail], us, {})
       ELSE Outcome([r EXCEPT !.status = 200, !.user = current.value.email],
                    us, {})

-----------------------------------------------------------------------------
(* The requests a client can send *)

\* What a client without the signing key can build for itself
Forge(token) == [token EXCEPT !.signature = OTHER_KEY]

ForgedFor == "a@b.com"

Bearer(forged) == issued \cup {Forge(forged), Malformed}

RefreshBearers == Bearer(create_refresh_token([sub |-> ForgedFor], None, clock))
ConfirmBearers == Bearer(create_email_token([sub |-> ForgedFor], clock))
AccessBearers == Bearer(create_access_token([sub |-> ForgedFor], None, clock))

Commit(out) ==
    /\ Cardinality(issued \cup out.minted) <= MaxIssued
    /\ users' = out.users
    /\ issued' = issued \cup out.minted
    /\ resp' = out.resp
    /\ UNCHANGED <<contacts, next_contact_id, clock, today, nticks, inflight>>

Signup(email, password) ==
    /\ Len(users) < MaxUsers
    /\ Commit(signup([email |-> email, password |-> password], users, clock))

Login(email, password) ==
    Commit(login([username |-> email, password |-> password], users, clock))

RefreshToken(token) == Commit(refresh_token(token, users, clock))

ConfirmedEmail(token) == Commit(confirmed_email(token, users, clock))

RequestEmail(email) == Commit(request_email([email |-> email], users, clock))

GetUsersMe(token) == Commit(get_users_me(token, users, clock))

Tick(d) ==
    /\ nticks < MaxTicks
    /\ clock' = clock + d
    /\ nticks' = nticks + 1
    /\ resp' = Idle
    /\ UNCHANGED <<users, contacts, next_contact_id, today, issued, inflight>>

Init ==
    /\ users = <<>>
    /\ contacts = <<>>
    /\ next_contact_id = 1
    /\ clock = 0
    /\ today = Date(2024, 6, 1)
    /\ nticks = 0
    /\ issued = {}
    /\ resp = Idle
    /\ inflight = <<>>

Next ==
    \/ \E e \in Emails : Signup(e, SignupPassword)
    \/ \E e \in Emails, p \in Passwords : Login(e, p)
    \/ \E t \in RefreshBearers : RefreshToken(t)
    \/ \E t \in ConfirmBearers : ConfirmedEmail(t)
    \/ \E e \in Emails : RequestEmail(e)
    \/ \E t \in AccessBearers : GetUsersMe(t)
    \/ \E d \in Deltas : Tick(d)

Spec == Init /\ [][Next]_vars

-----------------------------------------------------------------------------
(* datetime.date *)

IsLeap(y) == (y % 4 = 0 /\ y % 100 # 0) \/ y % 400 = 0

DaysInMonth(y, m) ==
    IF m = 2 THEN (IF IsLeap(y) THEN 29 ELSE 28)
    ELSE IF m \in {4, 6, 9, 11} THEN 30 ELSE 31

IsDate(d) ==
    d.month \in 1..12 /\ d.day \in 1..DaysInMonth(d.year, d.month)

RECURSIVE DaysBefore(_, _)
DaysBefore(y, m) == IF m = 1 THEN 0 ELSE DaysBefore(y, m - 1) + DaysInMonth(y, m - 1)

\* date.timetuple().tm_yday
tm_yday(d) == DaysBefore(d.year, d.month) + d.day

NextDay(d) ==
    IF d.day < DaysInMonth(d.year, d.month) THEN Date(d.year, d.month, d.day + 1)
    ELSE IF d.month < 12 THEN Date(d.year, d.month + 1, 1)
    ELSE Date(d.year + 1, 1, 1)

\* date + timedelta(days=n)
RECURSIVE AddDays(_, _)
AddDays(d, n) == IF n = 0 THEN d ELSE AddDays(NextDay(d), n - 1)

\* date.replace(year=y): ValueError when the day does not exist in year y
replace_year(d, y) ==
    IF IsDate(Date(y, d.month, d.day)) THEN Return(Date(y, d.month, d.day))
    ELSE Raise(500, "ValueError")

\* str.lower() and SQL lower() on the names of the model
LowerTable ==
    [John |-> "john", JOHN |-> "john", Doe |-> "doe", DOE |-> "doe",
     Wade |-> "wade", Wilson |-> "wilson"]

lower(str) == IF str \in DOMAIN LowerTable THEN LowerTable[str] ELSE str

-----------------------------------------------------------------------------
(* repository/contacts.py: each function of the contacts table cs *)

first_or_none(rows) == IF rows = <<>> THEN None ELSE Head(rows)

get_all_contacts(offset, limit, user, cs) ==
    LET mine == SelectSeq(cs, LAMBDA c : c.user_id = user.id)
    IN SubSeq(mine, offset + 1,
              IF offset + limit < Len(mine) THEN offset + limit ELSE Len(mine))

\* Mutant: the query filters by id alone
get_contact_any_owner(contact_id, user, cs) ==
    first_or_none(SelectSeq(cs, LAMBDA c : c.id = contact_id))

get_contact(contact_id, user, cs) ==
    first_or_none(SelectSeq(cs, LAMBDA c :
        c.id = contact_id /\ c.user_id = user.id))

new_contact(body, user, id) ==
    [id |-> id, first_name |-> body.first_name, last_name |-> body.last_name,
     email |-> body.email, phone_number |-> body.phone_number,
     birthday_date |-> body.birthday_date, user_id |-> user.id]

\* Mutant: the new row is never committed
create_contact_uncommitted(body, user, cs, id) == cs

create_contact(body, user, cs, id) == Append(cs, new_contact(body, user, id))

\* Contact.id: the primary key the database assigns from its sequence
next_id(id) == id + 1

\* Mutant: the birthday is not assigned
updated_contact_partial(contact, body) ==
    [contact EXCEPT !.first_name = body.first_name,
                    !.last_name = body.last_name,
                    !.email = body.email,
                    !.phone_number = body.phone_number]

updated_contact(contact, body) ==
    [contact EXCEPT !.first_name = body.first_name,
                    !.last_name = body.last_name,
                    !.email = body.email,
                    !.phone_number = body.phone_number,
                    !.birthday_date = body.birthday_date]

\* Mutant: the row is looked up by id alone
update_contact_any_owner(contact_id, body, user, cs) ==
    LET contact == first_or_none(SelectSeq(cs, LAMBDA c : c.id = contact_id)) IN
    IF contact = None THEN cs
    ELSE [i \in DOMAIN cs |->
            IF cs[i].id = contact.id THEN updated_contact(cs[i], body)
            ELSE cs[i]]

update_contact(contact_id, body, user, cs) ==
    LET contact == get_contact(contact_id, user, cs) IN
    IF contact = None THEN cs
    ELSE [i \in DOMAIN cs |->
            IF cs[i].id = contact.id THEN updated_contact(cs[i], body)
            ELSE cs[i]]

\* Mutant: the row is never removed
delete_contact_kept(contact_id, user, cs) == cs

\* Mutant: the row is found and removed by id alone
delete_contact_any_owner(contact_id, user, cs) ==
    SelectSeq(cs, LAMBDA c : c.id # contact_id)

delete_contact(contact_id, user, cs) ==
    LET contact == get_contact(contact_id, user, cs) IN
    IF contact = None THEN cs
    ELSE SelectSeq(cs, LAMBDA c : c.id # contact.id)

\* Mutant: the names are compared as they are
get_contact_by_first_name_exact(contact_first_name, user, cs) ==
    first_or_none(SelectSeq(cs, LAMBDA c :
        c.user_id = user.id /\ c.first_name = contact_first_name))

get_contact_by_first_name(contact_first_name, user, cs) ==
    first_or_none(SelectSeq(cs, LAMBDA c :
        c.user_id = user.id /\ lower(c.first_name) = lower(contact_first_name)))

get_contact_by_last_name(contact_last_name, user, cs) ==
    first_or_none(SelectSeq(cs, LAMBDA c :
        c.user_id = user.id /\ lower(c.last_name) = lower(contact_last_name)))

get_contact_by_email(contact_email, user, cs) ==
    first_or_none(SelectSeq(cs, LAMBDA c :
        c.user_id = user.id /\ c.email = contact_email))

\* The loop's test for one contact: the birthday moved to this year, and the
\* three days of the year compared.
birthday_is_upcoming(contact, date_today) ==
    LET today_plus_week == AddDays(date_today, 7)
        birthday == replace_year(contact.birthday_date, date_today.year).value
    IN tm_yday(date_today) <= tm_yday(birthday)
       /\ tm_yday(birthday) <= tm_yday(today_plus_week)

get_contacts_upcoming_birthdays(user, cs, date_today) ==
    LET mine == SelectSeq(cs, LAMBDA c : c.user_id = user.id)
        failing == SelectSeq(mine, LAMBDA c :
            replace_year(c.birthday_date, date_today.year).status # 200)
    IN IF failing # <<>> THEN Raise(500, "ValueError")
       ELSE Return(SelectSeq(mine, LAMBDA c : birthday_is_upcoming(c, date_today)))

-----------------------------------------------------------------------------
(* routes/contacts.py: each handler runs behind Depends(get_current_user)  *)
(* and maps an absent contact to 404.                                      *)

ContactOutcome(response, cs, id) ==
    [resp |-> response, contacts |-> cs, next_contact_id |-> id]

Found(op, status, current_user, rows) ==
    [Response(op, status, "") EXCEPT !.current_user = current_user.id,
                                    !.contacts = rows]

NotFound(op, current_user) ==
    [Response(op, 404, "Contact is not found")
        EXCEPT !.current_user = current_user.id]

OneOr404(op, status, current_user, contact) ==
    IF contact = None THEN NotFound(op, current_user)
    ELSE Found(op, status, current_user, <<contact>>)

route_get_all_contacts(offset, limit, current_user, cs, id) ==
    ContactOutcome(Found("get_all_contacts", 200, current_user,
                         get_all_contacts(offset, limit, current_user, cs)),
                   cs, id)

route_get_contact(contact_id, current_user, cs, id) ==
    ContactOutcome(OneOr404("get_contact", 200, current_user,
                            get_contact(contact_id, current_user, cs)),
                   cs, id)

route_create_contact(body, current_user, cs, id) ==
    ContactOutcome(Found("create_contact", 201, current_user,
                         <<new_contact(body, current_user, id)>>),
                   create_contact(body, current_user, cs, id), next_id(id))

route_update_contact(contact_id, body, current_user, cs, id) ==
    LET after == update_contact(contact_id, body, current_user, cs) IN
    ContactOutcome(OneOr404("update_contact", 200, current_user,
                            get_contact(contact_id, current_user, after)),
                   after, id)

route_delete_contact(contact_id, current_user, cs, id) ==
    ContactOutcome(OneOr404("delete_contact", 204, current_user,
                            get_contact(contact_id, current_user, cs)),
                   delete_contact(contact_id, current_user, cs), id)

route_get_contact_by_first_name(contact_first_name, current_user, cs, id) ==
    ContactOutcome(OneOr404("get_contact_by_first_name", 200, current_user,
                            get_contact_by_first_name(contact_first_name, current_user, cs)),
                   cs, id)

route_get_contact_by_last_name(contact_last_name, current_user, cs, id) ==
    ContactOutcome(OneOr404("get_contact_by_last_name", 200, current_user,
                            get_contact_by_last_name(contact_last_name, current_user, cs)),
                   cs, id)

route_get_contact_by_email(contact_email, current_user, cs, id) ==
    ContactOutcome(OneOr404("get_contact_by_email", 200, current_user,
                            get_contact_by_email(contact_email, current_user, cs)),
                   cs, id)

route_get_contacts_upcoming_birthdays(current_user, cs, id, date_today) ==
    LET found == get_contacts_upcoming_birthdays(current_user, cs, date_today) IN
    ContactOutcome(
        IF found.status # 200
        THEN [Response("get_contacts_upcoming_birthdays", found.status, found.detail)
                 EXCEPT !.current_user = current_user.id]
        ELSE Found("get_contacts_upcoming_birthdays", 200, current_user, found.value),
        cs, id)

-----------------------------------------------------------------------------
(* The contact requests a client can send *)

MaxContactId == 2

ContactBodies ==
    {[first_name |-> "John", last_name |-> "Doe", email |-> "john@x.io",
      phone_number |-> "111", birthday_date |-> Date(2000, 6, 4)],
     [first_name |-> "JOHN", last_name |-> "Wilson", email |-> "JOHN@x.io",
      phone_number |-> "222", birthday_date |-> Date(1990, 6, 8)],
     [first_name |-> "Wade", last_name |-> "Wilson", email |-> "wade@x.io",
      phone_number |-> "333", birthday_date |-> Date(1996, 6, 9)]}

QueryNames == {"john", "JOHN", "Wilson", "DOE", "nobody"}
QueryEmails == {"john@x.io", "wade@x.io"}
Offsets == {0, 1}
Limits == {1, 50}
ContactIds == 1..MaxContactId

AccessTokens == {t \in issued : "payload" \in DOMAIN t
                                /\ "scope" \in DOMAIN t.payload
                                /\ t.payload.scope = "access_token"}

ContactBearers == AccessTokens \cup {Malformed}

\* Depends(get_current_user): the handler runs only for a resolved user
Rejected(op, current) ==
    /\ current.status # 200
    /\ resp' = Response(op, current.status, current.detail)
    /\ UNCHANGED <<contacts, next_contact_id>>

CommitContacts(out) ==
    /\ contacts' = out.contacts
    /\ next_contact_id' = out.next_contact_id
    /\ resp' = out.resp

Current(token) == get_current_user(token, clock, users)

AuthFrame == UNCHANGED <<users, clock, today, nticks, issued, inflight>>

GetAllContacts(token, offset, limit) ==
    /\ AuthFrame
    /\ \/ Rejected("get_all_contacts", Current(token))
       \/ /\ Current(token).status = 200
          /\ CommitContacts(route_get_all_contacts(offset, limit,
                 Current(token).value, contacts, next_contact_id))

GetContact(token, contact_id) ==
    /\ AuthFrame
    /\ \/ Rejected("get_contact", Current(token))
       \/ /\ Current(token).status = 200
          /\ CommitContacts(route_get_contact(contact_id,
                 Current(token).value, contacts, next_contact_id))

CreateContact(token, body) ==
    /\ AuthFrame
    /\ next_contact_id <= MaxContactId
    /\ \/ Rejected("create_contact", Current(token))
       \/ /\ Current(token).status = 200
          /\ CommitContacts(route_create_contact(body,
                 Current(token).value, contacts, next_contact_id))

UpdateContact(token, contact_id, body) ==
    /\ AuthFrame
    /\ \/ Rejected("update_contact", Current(token))
       \/ /\ Current(token).status = 200
          /\ CommitContacts(route_update_contact(contact_id, body,
                 Current(token).value, contacts, next_contact_id))

DeleteContact(token, contact_id) ==
    /\ AuthFrame
    /\ \/ Rejected("delete_contact", Current(token))
       \/ /\ Current(token).status = 200
          /\ CommitContacts(route_delete_contact(contact_id,
                 Current(token).value, contacts, next_contact_id))

GetContactByFirstName(token, name) ==
    /\ AuthFrame
    /\ \/ Rejected("get_contact_by_first_name", Current(token))
       \/ /\ Current(token).status = 200
          /\ CommitContacts(route_get_contact_by_first_name(name,
                 Current(token).value, contacts, next_contact_id))

GetContactByLastName(token, name) ==
    /\ AuthFrame
    /\ \/ Rejected("get_contact_by_last_name", Current(token))
       \/ /\ Current(token).status = 200
          /\ CommitContacts(route_get_contact_by_last_name(name,
                 Current(token).value, contacts, next_contact_id))

GetContactByEmail(token, email) ==
    /\ AuthFrame
    /\ \/ Rejected("get_contact_by_email", Current(token))
       \/ /\ Current(token).status = 200
          /\ CommitContacts(route_get_contact_by_email(email,
                 Current(token).value, contacts, next_contact_id))

GetContactsUpcomingBirthdays(token) ==
    /\ AuthFrame
    /\ \/ Rejected("get_contacts_upcoming_birthdays", Current(token))
       \/ /\ Current(token).status = 200
          /\ CommitContacts(route_get_contacts_upcoming_birthdays(
                 Current(token).value, contacts, next_contact_id, today))

\* Two users who have signed up, confirmed their email and logged in
SignedUpA == signup([email |-> "a@b.com", password |-> SignupPassword], <<>>, 0)
SignedUpB == signup([email |-> "dead@pool.io", password |-> SignupPassword],
                    SignedUpA.users, 0)
ConfirmedA == confirmed_email(create_email_token([sub |-> "a@b.com"], 0),
                              SignedUpB.users, 0)
ConfirmedB == confirmed_email(create_email_token([sub |-> "dead@pool.io"], 0),
                              ConfirmedA.users, 0)
LoggedInA == login([username |-> "a@b.com", password |-> SignupPassword],
                   ConfirmedB.users, 0)
LoggedInB == login([username |-> "dead@pool.io", password |-> SignupPassword],
                   LoggedInA.users, 0)

InitContacts ==
    /\ users = LoggedInB.users
    /\ issued = SignedUpA.minted \cup SignedUpB.minted
                \cup LoggedInA.minted \cup LoggedInB.minted
    /\ contacts = <<>>
    /\ next_contact_id = 1
    /\ clock = 0
    /\ today = Date(2024, 6, 1)
    /\ nticks = 0
    /\ resp = Idle
    /\ inflight = <<>>

NextContacts ==
    \/ \E t \in ContactBearers, o \in Offsets, l \in Limits : GetAllContacts(t, o, l)
    \/ \E t \in ContactBearers, i \in ContactIds : GetContact(t, i)
    \/ \E t \in ContactBearers, b \in ContactBodies : CreateContact(t, b)
    \/ \E t \in ContactBearers, i \in ContactIds, b \in ContactBodies :
          UpdateContact(t, i, b)
    \/ \E t \in ContactBearers, i \in ContactIds : DeleteContact(t, i)
    \/ \E t \in ContactBearers, n \in QueryNames : GetContactByFirstName(t, n)
    \/ \E t \in ContactBearers, n \in QueryNames : GetContactByLastName(t, n)
    \/ \E t \in ContactBearers, e \in QueryEmails : GetContactByEmail(t, e)
    \/ \E t \in ContactBearers : GetContactsUpcomingBirthdays(t)

SpecContacts == InitContacts /\ [][NextContacts]_vars

-----------------------------------------------------------------------------
(* The birthday window on its own: the current date is any day of the      *)
(* years of the model, the first user stores contacts whose birthdays lie  *)
(* around it, and the upcoming birthdays are asked for.                    *)

Years == {2023, 2024}

Todays ==
    {d \in [year : Years, month : 1..12, day : 1..31] : IsDate(d)}

\* date - timedelta(days=1)
PrevDay(d) ==
    IF d.day > 1 THEN Date(d.year, d.month, d.day - 1)
    ELSE IF d.month > 1
         THEN Date(d.year, d.month - 1, DaysInMonth(d.year, d.month - 1))
         ELSE Date(d.year - 1, 12, 31)

\* The same month and day in the leap year 2000
InYear2000(d) == Date(2000, d.month, d.day)

\* Birthdays stored relative to the current date, as the repository's tests
\* store them, the same days in another year, and a 29 February
Birthdays(date_today) ==
    {AddDays(date_today, k) : k \in {3, 7, 8, 10, 15}}
    \cup {InYear2000(AddDays(date_today, k)) : k \in {7, 8}}
    \cup {PrevDay(date_today), InYear2000(PrevDay(date_today))}
    \cup {Date(2000, 2, 29)}

BirthdayBodies(date_today) ==
    {[first_name |-> "Wade", last_name |-> "Wilson", email |-> "wade@x.io",
      phone_number |-> "333", birthday_date |-> d] : d \in Birthdays(date_today)}

InitBirthdays ==
    /\ users = LoggedInB.users
    /\ issued = LoggedInA.minted
    /\ contacts = <<>>
    /\ next_contact_id = 1
    /\ clock = 0
    /\ today \in Todays
    /\ nticks = 0
    /\ resp = Idle
    /\ inflight = <<>>

NextBirthdays ==
    \/ \E t \in ContactBearers, b \in BirthdayBodies(today) : CreateContact(t, b)
    \/ \E t \in ContactBearers : GetContactsUpcomingBirthdays(t)

SpecBirthdays == InitBirthdays /\ [][NextBirthdays]_vars

-----------------------------------------------------------------------------
(* The token functions of services/auth.py on their own: a token is made   *)
(* for the email of a user row, time passes, and the token is decoded.     *)
(* issued holds the one token under test.                                  *)

\* UserModel.email is a plain str: the empty string is accepted at signup
TokenSubjects == Emails \cup {""}

\* expires_delta: not given (None), or a lifetime in seconds
ExpiresDeltas == {None, Seconds(0), Seconds(2 * AccessTTL)}

TokenFrame ==
    UNCHANGED <<users, contacts, next_contact_id, clock, today, nticks, inflight>>

Created(op, token) ==
    /\ issued' = {token}
    /\ resp' = [Response(op, 200, "") EXCEPT !.user = token.payload.sub]
    /\ TokenFrame

Decoded(op, result) ==
    /\ resp' = [Response(op, result.status, result.detail)
                  EXCEPT !.user = IF result.status = 200
                                  THEN result.value.email ELSE ""]
    /\ UNCHANGED issued
    /\ TokenFrame

CreateAccessToken(email, expires_delta) ==
    Created("create_access_token",
            create_access_token([sub |-> email], expires_delta, clock))

CreateRefreshToken(email, expires_delta) ==
    Created("create_refresh_token",
            create_refresh_token([sub |-> email], expires_delta, clock))

CreateEmailToken(email) ==
    Created("create_email_token", create_email_token([sub |-> email], clock))

DecodeRefreshToken(token) ==
    Decoded("decode_refresh_token", decode_refresh_token(token, clock))

GetCurrentUser(token) ==
    Decoded("get_current_user", get_current_user(token, clock, users))

GetEmailFromToken(token) ==
    Decoded("get_email_from_token", get_email_from_token(token, clock))

InitTokens ==
    /\ \E e1, e2 \in TokenSubjects :
          users = signup([email |-> e2, password |-> SignupPassword],
                         signup([email |-> e1, password |-> SignupPassword],
                                <<>>, 0).users, 0).users
    /\ contacts = <<>>
    /\ next_contact_id = 1
    /\ clock = 0
    /\ today = Date(2024, 6, 1)
    /\ nticks = 0
    /\ issued = {}
    /\ resp = Idle
    /\ inflight = <<>>

NextTokens ==
    \/ \E u \in Range(users), d \in ExpiresDeltas : CreateAccessToken(u.email, d)
    \/ \E u \in Range(users), d \in ExpiresDeltas : CreateRefreshToken(u.email, d)
    \/ \E u \in Range(users) : CreateEmailToken(u.email)
    \/ \E t \in issued \cup {Forge(t) : t \in issued} \cup {Malformed} :
          DecodeRefreshToken(t)
    \/ \E t \in issued \cup {Forge(t) : t \in issued} \cup {Malformed} :
          GetCurrentUser(t)
    \/ \E t \in issued \cup {Forge(t) : t \in issued} \cup {Malformed} :
          GetEmailFromToken(t)
    \/ \E d \in Deltas : Tick(d)

SpecTokens == InitTokens /\ [][NextTokens]_vars

-----------------------------------------------------------------------------
(* Refresh calls handled concurrently (several workers, one database, no   *)
(* lock): each call presents the token stored for the same user and runs   *)
(* its steps of routes/auth.py refresh_token separately: decode the token  *)
(* and read the user row; compare and create the tokens; write and commit. *)

MaxCalls == 2

Calls == 1..MaxCalls

NewCall(token) ==
    [pc |-> "start", token |-> token, at |-> 0, user |-> None, status |-> 0,
     write |-> None, access_token |-> None, commit |-> 0]

Committed == {c \in Calls : inflight[c].commit > 0}

RefreshFrame == UNCHANGED <<contacts, next_contact_id, clock, today, nticks>>

\* email = decode_refresh_token(token); user = get_user_by_email(email, db)
ReadUser(c) ==
    LET call == inflight[c]
        decoded == decode_refresh_token(call.token, clock)
        user == get_user_by_email(decoded.value.email, users)
    IN /\ call.pc = "start"
       /\ inflight' = [inflight EXCEPT ![c] =
              IF decoded.status # 200
              THEN [call EXCEPT !.pc = "done", !.at = clock,
                                !.status = decoded.status]
              ELSE [call EXCEPT !.pc = "read", !.at = clock, !.user = user]]
       /\ resp' = IF decoded.status # 200
                  THEN Response("refresh_token", decoded.status, decoded.detail)
                  ELSE resp
       /\ UNCHANGED <<users, issued>>
       /\ RefreshFrame

\* if user.refresh_token != token: ... else: the new pair of tokens
CompareToken(c) ==
    LET call == inflight[c]
        email == call.user.email
        access_token == create_access_token([sub |-> email], None, clock)
        new_refresh_token == create_refresh_token([sub |-> email], None, clock)
    IN /\ call.pc = "read"
       /\ IF call.user.refresh_token # call.token
          THEN /\ inflight' = [inflight EXCEPT ![c] =
                      [call EXCEPT !.pc = "write", !.status = 401,
                                   !.write = None]]
               /\ UNCHANGED issued
          ELSE /\ inflight' = [inflight EXCEPT ![c] =
                      [call EXCEPT !.pc = "write", !.status = 200,
                                   !.write = new_refresh_token,
                                   !.access_token = access_token]]
               /\ issued' = issued \cup {access_token, new_refresh_token}
       /\ UNCHANGED <<users, resp>>
       /\ RefreshFrame

\* await repository_users.update_token(user, ..., db), then the response
WriteToken(c) ==
    LET call == inflight[c] IN
    /\ call.pc = "write"
    /\ users' = update_token(call.user, call.write, users)
    /\ inflight' = [inflight EXCEPT ![c] =
           [call EXCEPT !.pc = "done", !.commit = Cardinality(Committed) + 1]]
    /\ resp' = [Response("refresh_token", call.status,
                         IF call.status = 200 THEN ""
                         ELSE "Invalid refresh token")
                  EXCEPT !.access_token = call.access_token,
                         !.refresh_token = call.write]
    /\ UNCHANGED issued
    /\ RefreshFrame

InitRefresh ==
    /\ users = LoggedInB.users
    /\ issued = LoggedInA.minted \cup LoggedInB.minted
    /\ contacts = <<>>
    /\ next_contact_id = 1
    /\ clock = 0
    /\ today = Date(2024, 6, 1)
    /\ nticks = 0
    /\ resp = Idle
    /\ \E u \in Range(users) :
          inflight = [c \in Calls |-> NewCall(u.refresh_token)]

NextRefresh ==
    \/ \E c \in Calls : ReadUser(c)
    \/ \E c \in Calls : CompareToken(c)
    \/ \E c \in Calls : WriteToken(c)
    \/ \E d \in Deltas : Tick(d)

SpecRefresh == InitRefresh /\ [][NextRefresh]_vars

-----------------------------------------------------------------------------
(* Properties *)

\* A token the service signed, for this subject, presented no later than exp
ValidFor(token, email, now) ==
    /\ "payload" \in DOMAIN token
    /\ token.signature = SECRET_KEY
    /\ token.payload.sub = email
    /\ now <= token.payload.exp

HasScope(token, scope) ==
    /\ "payload" \in DOMAIN token
    /\ "scope" \in DOMAIN token.payload
    /\ token.payload.scope = scope

StoredToken(email, us) == get_user_by_email(email, us).refresh_token

ReadOps ==
    {"get_contact", "get_all_contacts", "get_contact_by_first_name",
     "get_contact_by_last_name", "get_contact_by_email",
     "get_contacts_upcoming_birthdays"}

\* C1: tenant isolation of reads. Every contact a read returns (get, list,
\* the three searches, upcoming birthdays) is owned by the requesting user,
\* and get with the id of another user's contact returns absent (404).
C1_TenantIsolation ==
    [][/\ resp'.op \in ReadOps =>
            \A c \in Range(resp'.contacts) : c.user_id = resp'.current_user
       /\ \A t \in ContactBearers, i \in ContactIds :
            ( /\ resp'.op = "get_contact"
              /\ Current(t).status = 200
              /\ \E c \in Range(contacts) :
                    c.id = i /\ c.user_id # Current(t).value.id
              /\ GetContact(t, i) )
            => resp'.status = 404 /\ resp'.contacts = <<>>]_vars

\* C1 witness: a get answered 404 while every id is an existing contact of
\* another user.
C1_Witness ==
    /\ resp.op = "get_contact"
    /\ resp.status = 404
    /\ resp.current_user # 0
    /\ \A i \in ContactIds : \E c \in Range(contacts) :
          c.id = i /\ c.user_id # resp.current_user

\* C2: refresh-reuse detection. In every reachable state, a refresh
\* presenting a refresh token that decodes for a user but differs from that
\* user's stored token fails with 401 and leaves the stored token null; a
\* refresh that follows it presenting any refresh token R1 issued to that
\* user fails with 401 too, and the stored token stays null.
C2_RefreshReuse ==
    \A t \in RefreshBearers, e \in Emails :
        ( /\ ValidFor(t, e, clock) /\ HasScope(t, "refresh_token")
          /\ StoredToken(e, users) # t )
        => LET stale == refresh_token(t, users, clock) IN
           /\ stale.resp.status = 401
           /\ StoredToken(e, stale.users) = None
           /\ \A r1 \in issued :
                 (ValidFor(r1, e, clock) /\ HasScope(r1, "refresh_token"))
                 => LET again == refresh_token(r1, stale.users, clock) IN
                    /\ again.resp.status = 401
                    /\ StoredToken(e, again.users) = None

\* C2 witness: a refresh was refused for a mismatch, the session is revoked
\* and a token that login issued to the user is still unexpired.
C2_Witness ==
    /\ resp.op = "refresh_token"
    /\ resp.status = 401
    /\ resp.detail = "Invalid refresh token"
    /\ \E u \in Range(users), r1 \in issued :
          /\ u.refresh_token = None
          /\ ValidFor(r1, u.email, clock) /\ HasScope(r1, "refresh_token")

\* C3: after a successful login or refresh the refresh token stored on the
\* user's record is the refresh token the response carries.
C3_StoredIsReturned ==
    (resp.op \in {"login", "refresh_token"} /\ resp.status = 200)
    => /\ resp.refresh_token # None
       /\ StoredToken(resp.refresh_token.payload.sub, users) = resp.refresh_token

\* C3 witness: a successful refresh at a later instant than the login.
C3_Witness ==
    /\ resp.op = "refresh_token"
    /\ resp.status = 200
    /\ \E t \in issued : HasScope(t, "refresh_token")
                         /\ t.payload.iat < resp.refresh_token.payload.iat

\* C4: login gating. Login fails with 401 for an unknown email, an
\* unconfirmed user or a password that does not verify; then no token is
\* issued and the users table is unchanged. Otherwise it succeeds.
C4_LoginGating ==
    [][resp'.op = "login" => \A e \in Emails, p \in Passwords :
          Login(e, p) =>
            LET user == get_user_by_email(e, users) IN
            IF \/ user = None
               \/ ~user.confirmed
               \/ user.password # get_password_hash(p)
            THEN /\ resp'.status = 401
                 /\ resp'.access_token = None /\ resp'.refresh_token = None
                 /\ users' = users /\ issued' = issued
            ELSE /\ resp'.status = 200
                 /\ resp'.access_token # None /\ resp'.refresh_token # None]_vars

\* C4 witness: a login refused although every registered user is confirmed
\* and both emails are registered: the password did not verify.
C4_Witness ==
    /\ resp.op = "login"
    /\ resp.status = 401
    /\ Len(users) = 2
    /\ \A u \in Range(users) : u.confirmed

\* C5: email uniqueness. No two user rows share an email; a signup with a
\* registered email fails with 409 and leaves the users table unchanged.
C5_EmailUnique ==
    [][/\ \A i, j \in DOMAIN users' :
            users'[i].email = users'[j].email => i = j
       /\ \A e \in Emails :
            ( /\ get_user_by_email(e, users) # None
              /\ resp'.op = "signup"
              /\ Signup(e, SignupPassword) )
            => resp'.status = 409 /\ users' = users]_vars

\* C5 witness: a signup answered 409.
C5_Witness ==
    /\ resp.op = "signup"
    /\ resp.status = 409
    /\ Len(users) >= 1

\* C6: the confirmed flag is monotonic. A user row is created unconfirmed,
\* rows are never removed, the flag goes from false to true only in a
\* confirmed_email request with a valid token for that user's email, never
\* from true to false, and confirmed_email for a confirmed user changes
\* nothing.
C6_ConfirmedMonotonic ==
    [][/\ users' # users => \A i \in DOMAIN users :
            /\ i \in DOMAIN users'
            /\ users'[i].email = users[i].email
            /\ users[i].confirmed => users'[i].confirmed
            /\ (~users[i].confirmed /\ users'[i].confirmed) =>
                 \E t \in ConfirmBearers :
                    ConfirmedEmail(t) /\ ValidFor(t, users[i].email, clock)
       /\ users' # users =>
            \A i \in DOMAIN users' \ DOMAIN users : ~users'[i].confirmed
       /\ resp'.op = "confirmed_email" =>
            \A t \in ConfirmBearers, u \in Range(users) :
              (ValidFor(t, u.email, clock) /\ u.confirmed /\ ConfirmedEmail(t))
              => users' = users]_vars

\* C6 witness: confirmed_email answered for a user who was confirmed before.
C6_Witness ==
    /\ resp.op = "confirmed_email"
    /\ resp.detail = "Your email is already confirmed"

\* C7 as stated: token round trip. For every user row and every issue time
\* so far, the access token create_access_token makes for the row's email
\* resolves to that user, and the refresh token create_refresh_token makes
\* decodes to that email, as long as the clock has not passed the token's
\* exp.
IssueTimes == {0} \cup {t.payload.iat : t \in issued}

RoundTrips(u) ==
    \A t0 \in IssueTimes, d \in ExpiresDeltas :
        LET access == create_access_token([sub |-> u.email], d, t0)
            refresh == create_refresh_token([sub |-> u.email], d, t0)
        IN /\ clock <= access.payload.exp =>
                get_current_user(access, clock, users) = Return(u)
           /\ clock <= refresh.payload.exp =>
                decode_refresh_token(refresh, clock) = Return([email |-> u.email])

C7_TokenRoundTrip_Original == \A u \in Range(users) : RoundTrips(u)

\* C7 amended: the same round trip for every user row whose email is not
\* the empty string.
C7_TokenRoundTrip == \A u \in Range(users) : u.email # "" => RoundTrips(u)

\* C7 witness: the current user was resolved from an access token issued at
\* an earlier instant, in a table that also holds a row with an empty email.
C7_Witness ==
    /\ resp.op = "get_current_user"
    /\ resp.status = 200
    /\ \E u \in Range(users) : u.email = ""
    /\ \A t \in issued : HasScope(t, "access_token") /\ t.payload.iat < clock

\* C8: scope separation. An unexpired access token is refused by
\* decode_refresh_token and by the refresh request with 401, an unexpired
\* refresh token is refused as a bearer token with 401, and neither request
\* changes the users table or issues a token.
C8_ScopeSeparation ==
    \A t \in issued, u \in Range(users) :
        /\ (ValidFor(t, u.email, clock) /\ HasScope(t, "access_token")) =>
              /\ decode_refresh_token(t, clock).status = 401
              /\ refresh_token(t, users, clock).resp.status = 401
              /\ refresh_token(t, users, clock).users = users
              /\ refresh_token(t, users, clock).minted = {}
        /\ (ValidFor(t, u.email, clock) /\ HasScope(t, "refresh_token")) =>
              /\ get_current_user(t, clock, users).status = 401
              /\ get_users_me(t, users, clock).resp.status = 401
              /\ get_users_me(t, users, clock).users = users
              /\ get_users_me(t, users, clock).minted = {}

\* C8 witness: a refresh request refused for the token's scope.
C8_Witness ==
    /\ resp.op = "refresh_token"
    /\ resp.status = 401
    /\ resp.detail = "Invalid scope for token"

C10_NoEnumeration ==
    \A known \in Range(users), unknown \in Emails, p \in Passwords :
        ( /\ get_user_by_email(unknown, users) = None
          /\ ~verify_password(p, known.password) )
        => login([username |-> known.email, password |-> p], users, clock).resp
           = login([username |-> unknown, password |-> p], users, clock).resp

-----------------------------------------------------------------------------
(* Contact commands and searches *)

Owns(u, i) == \E c \in Range(contacts) : c.id = i /\ c.user_id = u.id

Owned(u, i) == CHOOSE c \in Range(contacts) : c.id = i /\ c.user_id = u.id

FieldsOf(c) ==
    [first_name |-> c.first_name, last_name |-> c.last_name, email |-> c.email,
     phone_number |-> c.phone_number, birthday_date |-> c.birthday_date]

\* C11: update on an id that does not exist, or that another user owns,
\* answers absent (404) and changes nothing: the contacts table and the id
\* sequence are as before.
C11_UpdateAbsentNoMutation ==
    \A u \in Range(users), i \in ContactIds, b \in ContactBodies :
        ~Owns(u, i) =>
            LET out == route_update_contact(i, b, u, contacts, next_contact_id)
            IN /\ out.resp.status = 404
               /\ out.resp.contacts = <<>>
               /\ out.contacts = contacts
               /\ out.next_contact_id = next_contact_id

\* C11 witness: an update answered 404 while every id is a contact of some
\* other user.
C11_Witness ==
    /\ resp.op = "update_contact"
    /\ resp.status = 404
    /\ resp.current_user \in {u.id : u \in Range(users)}
    /\ \A i \in ContactIds :
          \E c \in Range(contacts) : c.id = i /\ c.user_id # resp.current_user

\* C12: delete is idempotent in effect. The first delete of an owned contact
\* returns the record and removes it (and only it); a get after it answers
\* absent; a second delete answers absent and leaves the table as the first
\* left it.
C12_DeleteIdempotent ==
    \A u \in Range(users), i \in ContactIds :
        Owns(u, i) =>
            LET rec == Owned(u, i)
                first == route_delete_contact(i, u, contacts, next_contact_id)
                second == route_delete_contact(i, u, first.contacts,
                                               first.next_contact_id)
                got == route_get_contact(i, u, first.contacts,
                                         first.next_contact_id)
            IN /\ first.resp.status = 204
               /\ first.resp.contacts = <<rec>>
               /\ Range(first.contacts) = Range(contacts) \ {rec}
               /\ got.resp.status = 404
               /\ second.resp.status = 404
               /\ second.resp.contacts = <<>>
               /\ second.contacts = first.contacts

\* C12 witness: a delete answered 404 after every contact ever created was
\* deleted.
C12_Witness ==
    /\ resp.op = "delete_contact"
    /\ resp.status = 404
    /\ resp.current_user \in {u.id : u \in Range(users)}
    /\ next_contact_id > MaxContactId
    /\ contacts = <<>>

\* C13: create/get round trip. A create returns a record of the requester
\* with the five fields of the request and an id no stored contact has, and
\* get with that id returns the record; every stored contact is still
\* returned unchanged by get after any step that did not update or delete
\* that contact.
C13_CreateGetRoundTrip ==
    [][/\ \A t \in ContactBearers, b \in ContactBodies :
            ( /\ resp'.op = "create_contact"
              /\ resp'.status = 201
              /\ Current(t).status = 200
              /\ CreateContact(t, b) )
            => LET rec == resp'.contacts[1]
                   u == Current(t).value
               IN /\ rec.user_id = u.id
                  /\ FieldsOf(rec) = b
                  /\ \A c \in Range(contacts) : c.id # rec.id
                  /\ get_contact(rec.id, u, contacts') = rec
       /\ \A c \in Range(contacts) :
            \/ /\ resp'.op \in {"update_contact", "delete_contact"}
               /\ resp'.status \in {200, 204}
               /\ resp'.contacts[1].id = c.id
            \/ \A u \in Range(users) :
                  u.id = c.user_id => get_contact(c.id, u, contacts') = c]_vars

\* C13 witness: a get returned the contact with the fields it was created
\* with, after another contact was created.
C13_Witness ==
    /\ resp.op = "get_contact"
    /\ resp.status = 200
    /\ resp.contacts[1].id = 1
    /\ next_contact_id > MaxContactId
    /\ Len(contacts) = MaxContactId

\* C14: update of a contact the requester owns replaces its five fields by
\* the request's and returns the updated record; its id and owner stay, and
\* every other row of the table is unchanged.
C14_UpdateReplacesFields ==
    \A u \in Range(users), i \in ContactIds, b \in ContactBodies :
        Owns(u, i) =>
            LET out == route_update_contact(i, b, u, contacts, next_contact_id)
                rec == out.resp.contacts[1]
            IN /\ out.resp.status = 200
               /\ Len(out.resp.contacts) = 1
               /\ FieldsOf(rec) = b
               /\ rec.id = i
               /\ rec.user_id = u.id
               /\ Len(out.contacts) = Len(contacts)
               /\ \A k \in DOMAIN contacts :
                     out.contacts[k] = IF contacts[k].id = i THEN rec
                                       ELSE contacts[k]
               /\ out.next_contact_id = next_contact_id

\* C14 witness: an update returned the stored record of one user while the
\* table also holds a contact of another user.
C14_Witness ==
    /\ resp.op = "update_contact"
    /\ resp.status = 200
    /\ Len(contacts) = 2
    /\ resp.contacts[1] \in Range(contacts)
    /\ \E c \in Range(contacts) :
          c.id # resp.contacts[1].id /\ c.user_id # resp.current_user

FirstNameMatches(u, q) ==
    {c \in Range(contacts) :
        c.user_id = u.id /\ lower(c.first_name) = lower(q)}

LastNameMatches(u, q) ==
    {c \in Range(contacts) :
        c.user_id = u.id /\ lower(c.last_name) = lower(q)}

\* C17: the searches by first and by last name ignore case. A query whose
\* lower-case form equals that of a stored name of the owner returns one of
\* the owner's contacts with that folded name; if exactly one such contact
\* exists, queries that differ only in case return that same record; if none
\* exists the result is absent.
C17_SearchIgnoresCase ==
    \A u \in Range(users), q \in QueryNames :
        LET byFirst == get_contact_by_first_name(q, u, contacts)
            byLast == get_contact_by_last_name(q, u, contacts)
        IN /\ FirstNameMatches(u, q) # {} => byFirst \in FirstNameMatches(u, q)
           /\ FirstNameMatches(u, q) = {} => byFirst = None
           /\ LastNameMatches(u, q) # {} => byLast \in LastNameMatches(u, q)
           /\ LastNameMatches(u, q) = {} => byLast = None
           /\ \A q2 \in QueryNames :
                lower(q2) = lower(q) =>
                  /\ Cardinality(FirstNameMatches(u, q)) = 1 =>
                        get_contact_by_first_name(q2, u, contacts) = byFirst
                  /\ Cardinality(LastNameMatches(u, q)) = 1 =>
                        get_contact_by_last_name(q2, u, contacts) = byLast

\* C17 witness: a search by first name found the contact stored as "John",
\* which no query spells that way.
C17_Witness ==
    /\ resp.op = "get_contact_by_first_name"
    /\ resp.status = 200
    /\ resp.contacts[1].first_name = "John"
    /\ "John" \notin QueryNames

-----------------------------------------------------------------------------
(* Upcoming birthdays *)

SameMonthDay(d, e) == d.month = e.month /\ d.day = e.day

Upcoming(u) == get_contacts_upcoming_birthdays(u, contacts, today)

Included(u, c) == Upcoming(u).status = 200 /\ c \in Range(Upcoming(u).value)

Excluded(u, c) == Upcoming(u).status = 200 => c \notin Range(Upcoming(u).value)

\* C15: the window's boundary within one calendar year. When today + 7 days
\* lies in today's year, a contact of the owner whose birthday has the month
\* and day of today + 7 is included in the upcoming birthdays, and one with
\* the month and day of today + 8 or of the day before today is excluded,
\* whatever the birthday's year.
C15_WindowBoundary ==
    AddDays(today, 7).year = today.year =>
        \A u \in Range(users), c \in Range(contacts) :
            c.user_id = u.id =>
                /\ SameMonthDay(c.birthday_date, AddDays(today, 7)) => Included(u, c)
                /\ SameMonthDay(c.birthday_date, AddDays(today, 8)) => Excluded(u, c)
                /\ SameMonthDay(c.birthday_date, PrevDay(today)) => Excluded(u, c)

\* C16: for every current date, a contact whose stored birthday is today + 3
\* or today + 7 days is returned by the upcoming birthdays, and one whose
\* stored birthday is today + 8, today + 10 or today + 15 days is not.
C16_WindowEveryDay ==
    \A u \in Range(users), c \in Range(contacts) :
        c.user_id = u.id =>
            /\ c.birthday_date \in {AddDays(today, 3), AddDays(today, 7)}
                  => Included(u, c)
            /\ c.birthday_date \in {AddDays(today, k) : k \in {8, 10, 15}}
                  => Excluded(u, c)

-----------------------------------------------------------------------------
(* Token lifetimes *)

Lifetime(expires_delta, default) ==
    IF expires_delta = None THEN default ELSE expires_delta.seconds

\* The expiry rules for the lifetimes in deltas (None: the default lifetime)
ExpiryHolds(deltas) ==
    \A u \in Range(users), t0 \in IssueTimes, d \in deltas :
        LET access == create_access_token([sub |-> u.email], d, t0)
            refresh == create_refresh_token([sub |-> u.email], d, t0)
            email == create_email_token([sub |-> u.email], t0)
        IN /\ access.payload.exp = t0 + Lifetime(d, 15 * 60)
           /\ refresh.payload.exp = t0 + Lifetime(d, 7 * 24 * 3600)
           /\ email.payload.exp = t0 + 7 * 24 * 3600
           /\ clock > access.payload.exp =>
                 get_current_user(access, clock, users).status = 401
           /\ clock > refresh.payload.exp =>
                 decode_refresh_token(refresh, clock).status = 401
           /\ clock > email.payload.exp =>
                 get_email_from_token(email, clock).status = 422
           /\ clock <= access.payload.exp =>
                 \A v \in Range(users), stored \in {None, refresh} :
                     get_current_user(access, clock,
                                      update_token(v, stored, users)).status
                     = get_current_user(access, t0, users).status

\* C20: token expiry. A token issued at t with the default lifetime has
\* exp = t + 15 minutes (access) or t + 7 days (refresh, email), one issued
\* with an explicit lifetime d has exp = t + d; after its exp a token is
\* rejected (401 for access and refresh tokens, 422 for email tokens); until
\* its exp an access token is accepted as at issue, whatever refresh token
\* is stored or revoked meanwhile.
C20_TokenExpiry == ExpiryHolds(ExpiresDeltas)

-----------------------------------------------------------------------------
(* The refresh session *)

\* Rotation of the tokens in redeemed: a refresh that succeeds with R stores
\* a token other than R, and R presented again, now or later, gets 401.
RotationInvalidates(redeemed) ==
    \A R \in redeemed :
        LET first == refresh_token(R, users, clock) IN
        first.resp.status = 200 =>
            /\ StoredToken(R.payload.sub, first.users) # R
            /\ \A later \in {clock} \cup {clock + d : d \in Deltas} :
                  refresh_token(R, first.users, later).resp.status = 401

\* C18: rotation invalidates the redeemed token, for every pair of issue
\* times, the login that issued R and the refresh happening in the same
\* second included.
C18_RotationInvalidates ==
    RotationInvalidates({t \in issued : HasScope(t, "refresh_token")})

Revoked(u) == u.refresh_token = None

\* The tokens a client can present that name the user's email
TokensFor(u, bearers) ==
    {t \in bearers : "payload" \in DOMAIN t /\ t.payload.sub = u.email}
    \cup {Malformed}

\* One step of the session machine of every user, for refresh calls that
\* present the tokens in bearers
SessionStep(bearers) ==
    \A i \in DOMAIN users :
        /\ ( /\ Revoked(users[i])
             /\ resp'.op = "refresh_token"
             /\ \E t \in TokensFor(users[i], bearers) : RefreshToken(t) )
           => resp'.status = 401 /\ Revoked(users'[i])
        /\ (Revoked(users[i]) /\ ~Revoked(users'[i]))
           => resp'.op = "login" /\ resp'.status = 200
        /\ (~Revoked(users[i]) /\ Revoked(users'[i]))
           => /\ resp'.op = "refresh_token"
              /\ resp'.status = 401
              /\ \E t \in TokensFor(users[i], bearers) :
                    t # users[i].refresh_token /\ RefreshToken(t)
        /\ (Revoked(users'[i]) /\ users'[i].confirmed)
           => LET out == login([username |-> users'[i].email,
                                password |-> SignupPassword], users', clock')
              IN /\ out.resp.status = 200
                 /\ ~Revoked(out.users[i])

\* C19: the session of a user is a two-state machine (revoked: the stored
\* refresh token is None). In the revoked state every refresh call gets 401
\* and the state stays revoked; only a successful login leads from revoked
\* to valid; only a refresh presenting a token other than the stored one
\* leads from valid to revoked; a confirmed user in the revoked state gets
\* back to valid by login with the correct password.
C19_SessionMachine == [][SessionStep(RefreshBearers)]_vars

-----------------------------------------------------------------------------
(* Mutations and tenants *)

\* The rows of cs that users other than u own, in table order
OthersRows(u, cs) == SelectSeq(cs, LAMBDA c : c.user_id # u.id)

\* C21: mutations never cross tenants. Whatever id or body user u sends,
\* create, update and delete leave the rows of every other user exactly as
\* they were, and delete removes only the single row that matches both the
\* id and the owner.
C21_MutationsStayInTenant ==
    \A u \in Range(users), i \in ContactIds, b \in ContactBodies :
        LET created == route_create_contact(b, u, contacts, next_contact_id)
            updated == route_update_contact(i, b, u, contacts, next_contact_id)
            deleted == route_delete_contact(i, u, contacts, next_contact_id)
        IN /\ OthersRows(u, created.contacts) = OthersRows(u, contacts)
           /\ OthersRows(u, updated.contacts) = OthersRows(u, contacts)
           /\ OthersRows(u, deleted.contacts) = OthersRows(u, contacts)
           /\ deleted.contacts =
                 SelectSeq(contacts, LAMBDA c : ~(c.id = i /\ c.user_id = u.id))
           /\ Len(deleted.contacts) >= Len(contacts) - 1

\* C21 witness: a delete answered 404 while every id is a stored contact of
\* some other user.
C21_Witness ==
    /\ resp.op = "delete_contact"
    /\ resp.status = 404
    /\ resp.current_user \in {u.id : u \in Range(users)}
    /\ Len(contacts) = MaxContactId
    /\ \A c \in Range(contacts) : c.user_id # resp.current_user

-----------------------------------------------------------------------------
(* Requests that must not fail *)

\* C23: the upcoming birthdays are returned as a list, without failure, for
\* every owner, every current date and every stored birthday, a birthday
\* of 29 February in a year that is not a leap year included.
C23_UpcomingNeverFails ==
    \A u \in Range(users) : Upcoming(u).status = 200

\* C24: request_email answers every email without an unhandled failure and
\* changes no user row: for an email without a user row it answers 'Check
\* your email for confirmation' and sends no mail, for an unconfirmed user
\* it sends exactly one mail, for a confirmed user none.
C24_RequestEmailHandlesAll ==
    \A e \in Emails :
        LET out == request_email([email |-> e], users, clock)
            user == get_user_by_email(e, users)
        IN /\ out.resp.status = 200
           /\ out.users = users
           /\ user = None =>
                 /\ out.resp.detail = "Check your email for confirmation"
                 /\ out.resp.mails = 0
           /\ (user # None /\ ~user.confirmed) => out.resp.mails = 1
           /\ (user # None /\ user.confirmed) => out.resp.mails = 0

\* C25: tokens are only issued to confirmed users. Every access and refresh
\* token handed out, and every stored refresh token, has as subject the
\* email of a user row that is confirmed; the stored refresh token of a user
\* has that user's email as subject and the scope refresh_token.
C25_TokensOnlyForConfirmed ==
    /\ \A t \in issued :
          (HasScope(t, "access_token") \/ HasScope(t, "refresh_token")) =>
              \E u \in Range(users) : u.email = t.payload.sub /\ u.confirmed
    /\ \A u \in Range(users) :
          u.refresh_token # None =>
              /\ u.confirmed
              /\ u.refresh_token \in issued
              /\ u.refresh_token.payload.sub = u.email
              /\ HasScope(u.refresh_token, "refresh_token")
    /\ resp.op \in {"login", "refresh_token"} /\ resp.status = 200 =>
          /\ HasScope(resp.access_token, "access_token")
          /\ HasScope(resp.refresh_token, "refresh_token")
          /\ resp.access_token.payload.sub = resp.refresh_token.payload.sub
          /\ \E u \in Range(users) :
                u.email = resp.refresh_token.payload.sub /\ u.confirmed

\* C25 witness: a refresh succeeded for a confirmed user while another user
\* is still unconfirmed and has no stored token.
C25_Witness ==
    /\ resp.op = "refresh_token"
    /\ resp.status = 200
    /\ \E u \in Range(users) : u.confirmed /\ u.refresh_token = resp.refresh_token
    /\ \E u \in Range(users) : ~u.confirmed /\ u.refresh_token = None

-----------------------------------------------------------------------------
(* Concurrent refresh *)

AllDone == inflight # <<>> /\ \A c \in Calls : inflight[c].pc = "done"

LastCommitted == CHOOSE c \in Committed : inflight[c].commit = Cardinality(Committed)

\* The value stored last is the one the call that committed last wrote: the
\* refresh token it returned, or None if its comparison failed
LastWriterWins ==
    (AllDone /\ Committed # {}) =>
        LET last == inflight[LastCommitted] IN
        /\ StoredToken(last.user.email, users) = last.write
        /\ last.status = 200 => HasScope(last.write, "refresh_token")
        /\ last.status # 200 => last.write = None

\* C22 as stated: when the calls that present the stored token of one user
\* are handled concurrently, in every interleaving at least one of them
\* succeeds, and the token stored in the end is the value written by the
\* call that committed last.
C22_ConcurrentRefresh_Original ==
    /\ AllDone => \E c \in Calls : inflight[c].status = 200
    /\ LastWriterWins

\* C22 amended: the same, for a stored token that has not expired when the
\* calls present it.
C22_ConcurrentRefresh ==
    /\ ( /\ AllDone
         /\ \A c \in Calls : inflight[c].at <= inflight[c].token.payload.exp )
       => \E c \in Calls : inflight[c].status = 200
    /\ LastWriterWins

\* C22 witness: both calls read the stored token before either wrote; both
\* succeeded at different seconds, and the row holds the token of the call
\* that committed last.
C22_Witness ==
    /\ AllDone
    /\ \A c \in Calls : inflight[c].status = 200
    /\ \A c \in Calls : inflight[c].user.refresh_token = inflight[c].token
    /\ \E c, d \in Calls : inflight[c].write # inflight[d].write
    /\ StoredToken(inflight[LastCommitted].user.email, users)
          = inflight[LastCommitted].write

====
